---- MODULE Spec2Model ----
(***************************************************************************)
(* Local Lipschitz estimation (robustbench/eval/lipschitz.py):             *)
(*   box                      the perturbation projector                   *)
(*   compute_lipschitz_batch  projected gradient-sign ascent on one batch  *)
(*   compute_lipschitz        mean of the batch estimates over a loader    *)
(*   benchmark_lipschitz      one estimate per prefix of the layer list    *)
(*                                                                         *)
(* Tensor entries are fixed-point numbers: the integer v stands for the    *)
(* real v / Scale, so 1.0 is Scale.  The float NaN (0/0) is the value NaN; *)
(* every comparison with it is false, as in IEEE arithmetic.               *)
(***************************************************************************)
EXTENDS Integers, Sequences, FiniteSets, TLC

VARIABLES
    pc,         \* position of the running function
    \* ---- box(x_prime, x, eps) on one coordinate
    b_x_prime, b_x, b_eps, b_out, b_again,
    \* ---- compute_lipschitz_batch
    x, eps, step_size, n_steps,
    x_prime, max_lips, i, ret,
    evals,      \* history: the objective values evaluated so far, in order
    log,        \* history: "f" per objective evaluation, "step" per ascent step
    \* ---- benchmark_lipschitz and the compute_lipschitz call it is in
    layers,     \* model.get_lipschitz_layers()
    n_examples, batch_size,
    dl,         \* the batches of the DataLoader, in order
    bench_lips, \* benchmark_lipschitz's list lips
    net,        \* the layers of the nn.Sequential prefix
    layer_lips, \* the value the last compute_lipschitz call returned
    agg_lips,   \* compute_lipschitz's accumulator lips
    agg_i,      \* batches taken from enumerate(prog_bar)
    postfix,    \* the running mean last given to the progress bar
    batch_calls,\* history: the batch and the estimate of each batch call
    net_calls   \* history: the net of each compute_lipschitz call

boxVars   == <<b_x_prime, b_x, b_eps, b_out, b_again>>
batchVars == <<x, eps, step_size, n_steps, x_prime, max_lips, i, ret,
               evals, log>>
benchVars == <<layers, n_examples, batch_size, dl, bench_lips, net, layer_lips,
               agg_lips, agg_i, postfix, batch_calls, net_calls>>
vars      == <<pc, boxVars, batchVars, benchVars>>

---------------------------------------------------------------------------
(* Bounds of the model. *)
Scale       == 2    \* grid steps per unit: entries of [0,1] are 0..Scale
MaxEps      == 1    \* eps ranges over 0..MaxEps grid steps
MaxStepSize == 1    \* step_size ranges over 0..MaxStepSize grid steps
MaxSteps    == 2    \* n_steps ranges over 0..MaxSteps
MaxEntries  == 2    \* a batch tensor has at most MaxEntries entries
MaxLayers   == 2    \* the model has 0..MaxLayers Lipschitz layers
MaxExamples == 3    \* n_examples ranges over 0..MaxExamples
MaxBatchSize == 2   \* batch_size ranges over 1..MaxBatchSize
MaxEstimate == 1    \* a batch estimate is NaN or one of 0..MaxEstimate

(* A batch tensor x has Samples rows (dim 0) of Coords flattened entries. *)
Shapes  == { s \in (1..MaxEntries) \X (1..MaxEntries) : s[1] * s[2] <= MaxEntries }
Samples == DOMAIN x
Coords  == DOMAIN x[1]

NaN == -1           \* the float 0/0; every other objective value is >= 0
One == Scale        \* the entries of torch.ones_like(x)

TensorsOf(s, S) == [1..s[1] -> [1..s[2] -> S]]
Tensors(S)      == [Samples -> [Coords -> S]]

---------------------------------------------------------------------------
(* box *)
Maximum(a, b) == IF a >= b THEN a ELSE b
Minimum(a, b) == IF a <= b THEN a ELSE b

\* mutant: the lower bound is not clamped to the domain
min_x_unclamped(x_, eps_) == x_ - eps_

min_x(x_, eps_) == Maximum(0, x_ - eps_)
\* mutant: the upper bound is not clamped to the domain
max_x_unclamped(x_, eps_) == x_ + eps_

max_x(x_, eps_) == Minimum(One, x_ + eps_)

\* mutant: the two clamps are applied in the other order
box1_upper_last(x_prime_, x_, eps_) ==
    Minimum(max_x(x_, eps_), Maximum(x_prime_, min_x(x_, eps_)))

\* mutant: the lower bound is taken around x_prime instead of x
box1_around_x_prime(x_prime_, x_, eps_) ==
    Maximum(min_x(x_prime_, eps_), Minimum(x_prime_, max_x(x_, eps_)))

\* one entry of box's result
box1(x_prime_, x_, eps_) ==
    Maximum(min_x(x_, eps_), Minimum(x_prime_, max_x(x_, eps_)))

box(x_prime_, x_, eps_) ==
    [k \in DOMAIN x_ |-> [j \in DOMAIN x_[k] |->
        box1(x_prime_[k][j], x_[k][j], eps_)]]


InitBoxIdle ==
    /\ b_x_prime = 0 /\ b_x = 0 /\ b_eps = 0 /\ b_out = 0 /\ b_again = 0

InitBenchIdle ==
    /\ layers = <<>> /\ n_examples = 0 /\ batch_size = 1 /\ dl = <<>>
    /\ bench_lips = <<>> /\ net = <<>> /\ layer_lips = <<0, 1>>
    /\ agg_lips = 0 /\ agg_i = 0 /\ postfix = <<0, 1>>
    /\ batch_calls = <<>> /\ net_calls = <<>>

InitBatchIdle ==
    /\ x = <<<<0>>>> /\ eps = 0 /\ step_size = 0 /\ n_steps = 0
    /\ x_prime = <<<<0>>>> /\ max_lips = NaN /\ i = 0 /\ ret = NaN
    /\ evals = <<>> /\ log = <<>>

\* One entry each of x_prime, x and eps: x also outside [0,1], eps also negative.
BoxEntries == (0 - Scale)..(2 * Scale)

InitBox ==
    /\ pc = "box"
    /\ b_x_prime \in BoxEntries
    /\ b_x \in BoxEntries
    /\ b_eps \in (0 - MaxEps)..MaxEps
    /\ b_out = 0 /\ b_again = 0
    /\ InitBatchIdle
    /\ InitBenchIdle

\* b_out = box(b_x_prime, b_x, b_eps)
Project ==
    /\ pc = "box"
    /\ b_out' = box1(b_x_prime, b_x, b_eps)
    /\ pc' = "box_once"
    /\ UNCHANGED <<b_x_prime, b_x, b_eps, b_again, batchVars, benchVars>>

\* b_again = box(b_out, b_x, b_eps)
ProjectAgain ==
    /\ pc = "box_once"
    /\ b_again' = box1(b_out, b_x, b_eps)
    /\ pc' = "box_twice"
    /\ UNCHANGED <<b_x_prime, b_x, b_eps, b_out, batchVars, benchVars>>

NextBox == Project \/ ProjectAgain

SpecBox == InitBox /\ [][NextBox]_vars

\* The bounds as the specification words them.
Lower(x_, eps_) == IF x_ - eps_ > 0 THEN x_ - eps_ ELSE 0
Upper(x_, eps_) == IF x_ + eps_ < One THEN x_ + eps_ ELSE One

Projected == pc \in {"box_once", "box_twice"}

\* C1 as stated: for all x', all x and all eps >= 0 the output of box lies
\* between lower = max(0, x - eps) and upper = min(1, x + eps).
C1_Contained ==
    (Projected /\ b_eps >= 0) =>
        /\ Lower(b_x, b_eps) <= b_out
        /\ b_out <= Upper(b_x, b_eps)

\* C1 amended: for eps >= 0 the output is always >= lower; it is <= upper
\* exactly when lower <= upper, which holds for every x in [0,1]; when
\* lower > upper (x > 1 + eps or x < -eps) the output is lower.
C1_ContainedWhenOrdered ==
    (Projected /\ b_eps >= 0) =>
        /\ Lower(b_x, b_eps) <= b_out
        /\ (b_out <= Upper(b_x, b_eps)) <=> (Lower(b_x, b_eps) <= Upper(b_x, b_eps))
        /\ (b_x \in 0..One) => (Lower(b_x, b_eps) <= Upper(b_x, b_eps))
        /\ (Lower(b_x, b_eps) > Upper(b_x, b_eps)) => (b_out = Lower(b_x, b_eps))

C1_Witness ==
    /\ pc = "box_once" /\ b_eps > 0 /\ b_x \in 0..One
    /\ b_x_prime > Upper(b_x, b_eps)
    /\ b_out = Upper(b_x, b_eps)
    /\ Upper(b_x, b_eps) < One

\* C2: when the interval [max(0, x - eps), min(1, x + eps)] is not empty, box
\* returns the point of it closest to x': x' itself inside the interval, the
\* lower bound when x' is below it, the upper bound when x' is above it.
C2_ClosestPoint ==
    (Projected /\ Lower(b_x, b_eps) <= Upper(b_x, b_eps)) =>
        /\ b_out \in Lower(b_x, b_eps)..Upper(b_x, b_eps)
        /\ \A p \in Lower(b_x, b_eps)..Upper(b_x, b_eps) :
              (IF b_out >= b_x_prime THEN b_out - b_x_prime ELSE b_x_prime - b_out)
                <= (IF p >= b_x_prime THEN p - b_x_prime ELSE b_x_prime - p)
        /\ (b_x_prime \in Lower(b_x, b_eps)..Upper(b_x, b_eps)) => (b_out = b_x_prime)
        /\ (b_x_prime < Lower(b_x, b_eps)) => (b_out = Lower(b_x, b_eps))
        /\ (b_x_prime > Upper(b_x, b_eps)) => (b_out = Upper(b_x, b_eps))

C2_Witness ==
    /\ pc = "box_once" /\ b_x \in 0..One /\ b_eps > 0
    /\ b_x_prime < Lower(b_x, b_eps)
    /\ Lower(b_x, b_eps) > 0
    /\ b_out = Lower(b_x, b_eps)

\* C3: box(box(x', x, eps), x, eps) = box(x', x, eps) for all x', x and eps,
\* also for x outside [0,1], where the lower bound exceeds the upper bound.
C3_Idempotent ==
    (pc = "box_twice") => (b_again = b_out)

C3_Witness ==
    /\ pc = "box_twice"
    /\ Lower(b_x, b_eps) > Upper(b_x, b_eps)
    /\ b_out # b_x_prime
    /\ b_again = b_out

---------------------------------------------------------------------------
(* compute_lipschitz_batch *)
Abs(a) == IF a < 0 THEN -a ELSE a

RECURSIVE Fact(_)
Fact(n) == IF n <= 1 THEN 1 ELSE n * Fact(n - 1)

RECURSIVE SumOver(_, _)
SumOver(S, g) ==
    IF S = {} THEN 0
    ELSE LET e == CHOOSE e \in S : TRUE IN g[e] + SumOver(S \ {e}, g)

RECURSIVE MaxOver(_, _)
MaxOver(S, g) ==
    IF S = {} THEN 0
    ELSE LET e == CHOOSE e \in S : TRUE IN Maximum(g[e], MaxOver(S \ {e}, g))

\* torch.flatten(model(x_), start_dim=1) with l2_normalize = False, for the
\* identity model: the row of sample k is its flattened entries
model_(x_) == [k \in DOMAIN x_ |-> [j \in DOMAIN x_[k] |-> x_[k][j]]]

\* torch.norm(model_x - model_(x_prime_), p=1, dim=1)
numerator(x_prime_) ==
    [k \in Samples |->
        SumOver(Coords, [j \in Coords |->
            Abs(model_(x)[k][j] - model_(x_prime_)[k][j])])]

\* torch.norm(flatten(x) - flatten(x_prime_), p=inf, dim=1)
denominator(x_prime_) ==
    [k \in Samples |->
        MaxOver(Coords, [j \in Coords |-> Abs(x[k][j] - x_prime_[k][j])])]

\* An objective value v stands for the real v / ObjScale.
ObjScale == Cardinality(Samples) * Fact(Scale)

\* mutant: a zero denominator yields 0 instead of NaN
f_zero_for_zero(x_prime_) ==
    [k \in Samples |->
        IF denominator(x_prime_)[k] = 0
        THEN 0
        ELSE (numerator(x_prime_)[k] * Fact(Scale)) \div denominator(x_prime_)[k]]

\* numerator / denominator per sample: 0/0 is NaN; in units of 1 / Fact(Scale)
f(x_prime_) ==
    [k \in Samples |->
        IF denominator(x_prime_)[k] = 0
        THEN NaN
        ELSE (numerator(x_prime_)[k] * Fact(Scale)) \div denominator(x_prime_)[k]]

\* f(x_prime_).mean().item(), in units of 1 / ObjScale: NaN when any sample is
mean(v) ==
    IF \E k \in DOMAIN v : v[k] = NaN THEN NaN ELSE SumOver(DOMAIN v, v)

\* Python's a > b on floats
Gt(a, b) == a # NaN /\ b # NaN /\ a > b
\* a >= b as floats compare: false when either is NaN
Ge(a, b) == a # NaN /\ b # NaN /\ a >= b

\* mutant: the new value replaces the running maximum
max_keeps_last(a, b) == b

\* Python's max(a, b): b only when b > a
max(a, b) == IF Gt(b, a) THEN b ELSE a

\* x_prime.grad.sign() can be: the sample whose ratio is 0/0 has a NaN
\* gradient, whose sign is 0; elsewhere the sign is any of -1, 0, +1
GradSigns(x_prime_) ==
    { g \in Tensors({-1, 0, 1}) :
        \A k \in Samples : denominator(x_prime_)[k] = 0 =>
            \A j \in Coords : g[k][j] = 0 }

\* torch.randn_like(x): an entry is negative, zero or positive; step_size
\* times it is a whole number of grid steps
Noise == {-1, 0, 1}

\* x_ + s * d entrywise
AddScaled(x_, s, d) ==
    [k \in DOMAIN x_ |-> [j \in DOMAIN x_[k] |-> x_[k][j] + s * d[k][j]]]

InitBatch ==
    /\ pc = "start"
    /\ InitBoxIdle
    /\ InitBenchIdle
    /\ \E s \in Shapes : x \in TensorsOf(s, 0..Scale)
    /\ eps \in 0..MaxEps
    /\ step_size \in 0..MaxStepSize
    /\ n_steps \in 0..MaxSteps
    /\ x_prime = x /\ max_lips = NaN /\ i = 0 /\ ret = NaN
    /\ evals = <<>> /\ log = <<>>

\* lines 52-53, with noise the draw of torch.randn_like(x)
StartWith(noise) ==
    /\ pc = "start"
    /\ LET xp == box(AddScaled(x, step_size, noise), x, eps)
           y  == mean(f(xp))
       IN /\ x_prime' = xp
          /\ max_lips' = y
          /\ evals' = <<y>>
          /\ log' = <<"f">>
    /\ pc' = "loop"
    /\ UNCHANGED <<boxVars, benchVars, x, eps, step_size, n_steps, i, ret>>

Start == \E noise \in Tensors(Noise) : StartWith(noise)

\* line 55: for i in range(n_steps) has an iteration left, or is over
InLoop   == pc = "loop" /\ i < n_steps
LoopOver == pc = "loop" /\ i = n_steps

\* lines 55-60, one iteration
Iterate ==
    /\ InLoop
    /\ LET y == mean(f(x_prime))
       IN /\ max_lips' = max(max_lips, y)
          /\ evals' = Append(evals, y)
          /\ log' = log \o <<"f", "step">>
          /\ \E g \in GradSigns(x_prime) :
                x_prime' = box(AddScaled(x_prime, step_size, g), x, eps)
    /\ i' = i + 1
    /\ UNCHANGED <<pc, boxVars, benchVars, x, eps, step_size, n_steps, ret>>

\* mutant: the final x_prime is not evaluated
Return_without_final ==
    /\ LoopOver
    /\ ret' = max_lips
    /\ pc' = "done"
    /\ UNCHANGED <<boxVars, benchVars, x, eps, step_size, n_steps, x_prime,
                   max_lips, i, evals, log>>

\* line 62
Return ==
    /\ LoopOver
    /\ LET y == mean(f(x_prime))
       IN /\ ret' = max(max_lips, y)
          /\ evals' = Append(evals, y)
          /\ log' = Append(log, "f")
    /\ pc' = "done"
    /\ UNCHANGED <<boxVars, benchVars, x, eps, step_size, n_steps, x_prime,
                   max_lips, i>>

NextBatch == Start \/ Iterate \/ Return

SpecBatch == InitBatch /\ [][NextBatch]_vars

Perturbed == pc \in {"loop", "done"}

\* C4: for x in [0,1]^D and eps >= 0, after the initial projection and after
\* every ascent step each entry of x_prime lies in [0,1] and within eps of
\* the same entry of x, whatever the noise and the gradient signs are.
C4_InBoxAndBall ==
    Perturbed =>
        \A k \in Samples : \A j \in Coords :
            /\ 0 <= x_prime[k][j] /\ x_prime[k][j] <= One
            /\ x_prime[k][j] - x[k][j] <= eps
            /\ x[k][j] - x_prime[k][j] <= eps

C4_Witness ==
    /\ pc = "loop" /\ i >= 2 /\ eps > 0 /\ step_size > 0
    /\ \E k \in Samples : \E j \in Coords :
          /\ x_prime[k][j] = x[k][j] + eps
          /\ x_prime[k][j] = One

Inward(c, x_) == (c > x_ /\ x_ < One) \/ (c < x_ /\ x_ > 0)

C6_ZeroRadius ==
    (eps = 0) =>
        /\ \A k \in Samples : \A j \in Coords : \A c \in BoxEntries :
              box1(c, x[k][j], eps) = x[k][j]
        /\ Perturbed =>
              /\ x_prime = x
              /\ \A k \in Samples : denominator(x_prime)[k] = 0
              /\ \A n \in 1..Len(evals) : evals[n] = NaN
        /\ (pc = "done") => (ret = NaN /\ ret # 0)

C6_Witness ==
    /\ pc = "done" /\ eps = 0 /\ step_size > 0 /\ n_steps >= 1
    /\ Len(evals) = n_steps + 2
    /\ ret = NaN

RECURSIVE LoopLog(_)
LoopLog(n) == IF n = 0 THEN <<>> ELSE LoopLog(n - 1) \o <<"f", "step">>

Count(seq, e) == Cardinality({ n \in 1..Len(seq) : seq[n] = e })

\* C7: for every n_steps >= 0 a call ends after exactly n_steps + 2
\* evaluations of f and n_steps ascent steps, in the order: the initial
\* evaluation, per iteration one evaluation and then its step, the final
\* evaluation; until then the loop either has an iteration left, which has
\* a gradient sign to step along, or is over, and the call returns.
C7_EvaluationCount ==
    /\ (pc = "loop") =>
          /\ i <= n_steps
          /\ log = <<"f">> \o LoopLog(i)
    /\ (pc = "done") =>
          /\ log = <<"f">> \o LoopLog(n_steps) \o <<"f">>
          /\ Count(log, "f") = n_steps + 2
          /\ Count(log, "step") = n_steps
          /\ Len(evals) = n_steps + 2
    /\ (pc = "loop") => (InLoop \/ LoopOver)
    /\ InLoop => GradSigns(x_prime) # {}

C7_Witness ==
    /\ pc = "done" /\ n_steps = MaxSteps
    /\ Count(log, "f") = MaxSteps + 2

\* r is the maximum of the values of seq (false when a value is NaN)
IsMaximum(r, seq) ==
    /\ \E n \in 1..Len(seq) : seq[n] = r
    /\ \A n \in 1..Len(seq) : Ge(r, seq[n])

Defined(seq) == SelectSeq(seq, LAMBDA v : v # NaN)

---------------------------------------------------------------------------
(* compute_lipschitz and benchmark_lipschitz *)

\* a batch estimate, as compute_lipschitz_batch returns it: NaN or a number
Estimates == {NaN} \cup (0..MaxEstimate)

\* float a + b
Plus(a, b) == IF a = NaN \/ b = NaN THEN NaN ELSE a + b

\* float a / n for n > 0: the fraction <<a, n>>, and NaN / n is NaN
Quotient(a, n) == IF a = NaN THEN <<NaN, 1>> ELSE <<a, n>>

RECURSIVE Range(_)
Range(n) == IF n = 0 THEN <<>> ELSE Append(Range(n - 1), n)

InitBench ==
    /\ pc = "bench_start"
    /\ InitBoxIdle
    /\ InitBatchIdle
    /\ \E L \in 0..MaxLayers : layers = Range(L)
    /\ n_examples \in 0..MaxExamples
    /\ batch_size \in 1..MaxBatchSize
    /\ dl = <<>>
    /\ bench_lips = <<>> /\ net = <<>> /\ layer_lips = <<0, 1>>
    /\ agg_lips = 0 /\ agg_i = 0 /\ postfix = <<0, 1>>
    /\ batch_calls = <<>> /\ net_calls = <<>>

\* lines 121-130: drop_last keeps the n_examples // batch_size full batches
Load ==
    /\ pc = "bench_start"
    /\ dl' = Range(n_examples \div batch_size)
    /\ bench_lips' = <<>>
    /\ net' = <<>>
    /\ pc' = "bench_loop"
    /\ UNCHANGED <<boxVars, batchVars, layers, n_examples, batch_size,
                   layer_lips, agg_lips, agg_i, postfix, batch_calls, net_calls>>

\* mutant: the new Sequential holds the layer alone
NextLayer_drops_prefix ==
    /\ pc = "bench_loop"
    /\ Len(net_calls) < Len(layers)
    /\ net' = <<layers[Len(net_calls) + 1]>>
    /\ net_calls' = Append(net_calls, net')
    /\ agg_lips' = 0
    /\ agg_i' = 0
    /\ batch_calls' = <<>>
    /\ pc' = "agg_loop"
    /\ UNCHANGED <<boxVars, batchVars, layers, n_examples, batch_size, dl,
                   bench_lips, layer_lips, postfix>>

\* lines 132-134 up to the call, and lines 91-95 of the call
NextLayer ==
    /\ pc = "bench_loop"
    /\ Len(net_calls) < Len(layers)
    /\ net' = Append(net, layers[Len(net_calls) + 1])
    /\ net_calls' = Append(net_calls, net')
    /\ agg_lips' = 0
    /\ agg_i' = 0
    /\ batch_calls' = <<>>
    /\ pc' = "agg_loop"
    /\ UNCHANGED <<boxVars, batchVars, layers, n_examples, batch_size, dl,
                   bench_lips, layer_lips, postfix>>

\* mutant: the batch estimate replaces the accumulator
Batch_overwrites ==
    /\ pc = "agg_loop"
    /\ agg_i < Len(dl)
    /\ \E batch_lips \in Estimates :
          /\ agg_lips' = batch_lips
          /\ postfix' = Quotient(agg_lips', agg_i + 1)
          /\ batch_calls' = Append(batch_calls, <<dl[agg_i + 1], batch_lips>>)
    /\ agg_i' = agg_i + 1
    /\ UNCHANGED <<pc, boxVars, batchVars, layers, n_examples, batch_size, dl,
                   bench_lips, net, layer_lips, net_calls>>

\* lines 97-102, one batch
Batch ==
    /\ pc = "agg_loop"
    /\ agg_i < Len(dl)
    /\ \E batch_lips \in Estimates :
          /\ agg_lips' = Plus(agg_lips, batch_lips)
          /\ postfix' = Quotient(agg_lips', agg_i + 1)
          /\ batch_calls' = Append(batch_calls, <<dl[agg_i + 1], batch_lips>>)
    /\ agg_i' = agg_i + 1
    /\ UNCHANGED <<pc, boxVars, batchVars, layers, n_examples, batch_size, dl,
                   bench_lips, net, layer_lips, net_calls>>

\* line 104 and line 135: lips / len(dl), appended to the list
AggReturn ==
    /\ pc = "agg_loop"
    /\ agg_i = Len(dl)
    /\ Len(dl) > 0
    /\ layer_lips' = Quotient(agg_lips, Len(dl))
    /\ bench_lips' = Append(bench_lips, layer_lips')
    /\ pc' = "bench_loop"
    /\ UNCHANGED <<boxVars, batchVars, layers, n_examples, batch_size, dl, net,
                   agg_lips, agg_i, postfix, batch_calls, net_calls>>

\* line 104 with an empty loader: 0. / 0 raises ZeroDivisionError
AggRaise ==
    /\ pc = "agg_loop"
    /\ agg_i = Len(dl)
    /\ Len(dl) = 0
    /\ pc' = "raised"
    /\ UNCHANGED <<boxVars, batchVars, benchVars>>

\* line 137
BenchReturn ==
    /\ pc = "bench_loop"
    /\ Len(net_calls) = Len(layers)
    /\ pc' = "returned"
    /\ UNCHANGED <<boxVars, batchVars, benchVars>>

NextBench == Load \/ NextLayer \/ Batch \/ AggReturn \/ AggRaise \/ BenchReturn

SpecBench == InitBench /\ [][NextBench]_vars

RECURSIVE SumOf(_)
SumOf(seq) ==
    IF seq = <<>> THEN 0
    ELSE LET r == SumOf(SubSeq(seq, 1, Len(seq) - 1))
             e == seq[Len(seq)]
         IN IF r = NaN \/ e = NaN THEN NaN ELSE r + e

EstimatesOf(calls) == [n \in 1..Len(calls) |-> calls[n][2]]
BatchesOf(calls)   == [n \in 1..Len(calls) |-> calls[n][1]]

\* C9: benchmark_lipschitz returns a list of exactly L estimates, L the
\* number of layers, the k-th being what compute_lipschitz returned for the
\* prefix of layers 1..k; the list only grows by appending, and the prefix
\* grows by exactly one layer from one estimate to the next.
C9_OnePerPrefix ==
    /\ [] ( /\ \A k \in 1..Len(net_calls) : net_calls[k] = SubSeq(layers, 1, k)
            /\ Len(bench_lips) <= Len(net_calls)
            /\ Len(net_calls) <= Len(bench_lips) + 1
            /\ (pc = "returned") =>
                  /\ Len(bench_lips) = Len(layers)
                  /\ Len(net_calls) = Len(layers)
                  /\ net = layers )
    /\ [][ /\ \/ bench_lips' = bench_lips
              \/ bench_lips' = Append(bench_lips, layer_lips')
           /\ (bench_lips' # bench_lips) =>
                  /\ Len(net) = Len(bench_lips')
                  /\ layer_lips' = Quotient(agg_lips, Len(dl))
           /\ \/ net' = net
              \/ net' = Append(net, layers[Len(net) + 1]) ]_vars

C9_Witness ==
    /\ pc = "returned"
    /\ Len(layers) = MaxLayers
    /\ Len(bench_lips) = MaxLayers
    /\ bench_lips[1] # bench_lips[2]

\* C10: for a loader of B >= 1 batches compute_lipschitz calls the batch
\* estimator once per batch, in loader order, and returns the sum of the B
\* estimates divided by B; the running mean given after the i-th batch is
\* the sum of the first i estimates divided by i, so the last one given is
\* the returned value.
C10_MeanOfBatches ==
    /\ (pc = "agg_loop") =>
          /\ agg_i = Len(batch_calls)
          /\ BatchesOf(batch_calls) = SubSeq(dl, 1, agg_i)
          /\ agg_lips = SumOf(EstimatesOf(batch_calls))
          /\ (agg_i >= 1) =>
                postfix = Quotient(SumOf(EstimatesOf(batch_calls)), agg_i)
    /\ (pc \in {"bench_loop", "returned"} /\ Len(bench_lips) >= 1) =>
          /\ Len(dl) >= 1
          /\ BatchesOf(batch_calls) = dl
          /\ layer_lips = Quotient(SumOf(EstimatesOf(batch_calls)), Len(dl))
          /\ layer_lips = postfix
          /\ bench_lips[Len(bench_lips)] = layer_lips

C10_Witness ==
    /\ pc = "returned"
    /\ Len(dl) = MaxExamples
    /\ layer_lips[1] = MaxExamples * MaxEstimate
    /\ layer_lips[2] = MaxExamples

====
